---- MODULE Spec2Model ----
(***************************************************************************)
(* A model of the tnetstring Python binding (src/tnetstring/_tnetstring.c) *)
(* and of the codec engine it includes (tns_core.c).                       *)
(*                                                                         *)
(* Byte strings are sequences of one-character strings.  Python integers   *)
(* are sign + magnitude, the magnitude a big-endian sequence of decimal    *)
(* digits 0..9 without leading zeros (TLC's integers are 32 bits wide, a   *)
(* C long long is 64).  Host objects live in a heap of reference-counted   *)
(* cells, as CPython's do.                                                 *)
(***************************************************************************)
EXTENDS Integers, Sequences, FiniteSets, TLC

(***************************************************************************)
(* Bytes                                                                   *)
(***************************************************************************)
DigitChars == <<"0", "1", "2", "3", "4", "5", "6", "7", "8", "9">>

IsDigit(c) == c \in {"0", "1", "2", "3", "4", "5", "6", "7", "8", "9"}

\* isspace() of the C locale
IsSpace(c) == c \in {" ", "\t", "\n", "\r"}

DigitVal(c) == (CHOOSE i \in 1..10 : DigitChars[i] = c) - 1

DigitChar(d) == DigitChars[d + 1]

Reverse(s) == [i \in 1..Len(s) |-> s[Len(s) + 1 - i]]

\* The byte at 1-based position p of buf; past the end a PyString holds its
\* terminating NUL.
NUL == "NUL"

At(buf, p) == IF p >= 1 /\ p <= Len(buf) THEN buf[p] ELSE NUL

Slice(buf, p, n) == [i \in 1..n |-> buf[p + i - 1]]

\* The first position >= p whose byte does not satisfy the test.
RECURSIVE SkipSpaces(_, _)
SkipSpaces(buf, p) == IF IsSpace(At(buf, p)) THEN SkipSpaces(buf, p + 1) ELSE p

RECURSIVE SkipDigits(_, _)
SkipDigits(buf, p) == IF IsDigit(At(buf, p)) THEN SkipDigits(buf, p + 1) ELSE p

(***************************************************************************)
(* Numbers                                                                 *)
(***************************************************************************)
\* Magnitudes: big-endian decimal digits, <<0>> for zero.
RECURSIVE StripZeros(_)
StripZeros(m) ==
    IF Len(m) > 1 /\ m[1] = 0 THEN StripZeros(Tail(m))
    ELSE IF m = <<>> THEN <<0>> ELSE m

RECURSIVE MagLessFrom(_, _, _)
MagLessFrom(a, b, i) ==
    IF i > Len(a) THEN FALSE
    ELSE IF a[i] # b[i] THEN a[i] < b[i]
    ELSE MagLessFrom(a, b, i + 1)

\* a < b for normalised magnitudes
MagLess(a, b) ==
    IF Len(a) # Len(b) THEN Len(a) < Len(b) ELSE MagLessFrom(a, b, 1)

\* |LLONG_MAX| = 2^63 - 1 and |LLONG_MIN| = 2^63
LLONG_MAX_MAG == <<9, 2, 2, 3, 3, 7, 2, 0, 3, 6, 8, 5, 4, 7, 7, 5, 8, 0, 7>>

LLONG_MIN_MAG == <<9, 2, 2, 3, 3, 7, 2, 0, 3, 6, 8, 5, 4, 7, 7, 5, 8, 0, 8>>

PyInt(neg, mag) == [t |-> "int", neg |-> neg /\ mag # <<0>>, mag |-> mag]

\* The value lies in [-2^63, 2^63 - 1].
FitsLongLong(neg, mag) ==
    ~ MagLess(IF neg THEN LLONG_MIN_MAG ELSE LLONG_MAX_MAG, mag)

DigitsOf(buf, p, q) == [i \in 1..(q - p) |-> DigitVal(buf[p + i - 1])]

\* strtoll(nptr, &endptr, 10) with nptr at position p of buf: skips white
\* space, takes an optional sign and the longest run of digits; without a
\* digit nothing is converted and endptr = nptr; a value out of range is
\* clamped to LLONG_MAX or LLONG_MIN (errno, which the caller never reads,
\* is set to ERANGE).  The result is [neg, mag, end].
StrtollValue(neg, mag, e) ==
    IF FitsLongLong(neg, mag) THEN [neg |-> neg, mag |-> mag, end |-> e]
    ELSE [neg |-> neg, mag |-> IF neg THEN LLONG_MIN_MAG ELSE LLONG_MAX_MAG, end |-> e]

StrtollDigits(buf, p, neg, d, e) ==
    IF e = d THEN [neg |-> FALSE, mag |-> <<0>>, end |-> p]
    ELSE StrtollValue(neg, StripZeros(DigitsOf(buf, d, e)), e)

StrtollSign(buf, p, neg, d) == StrtollDigits(buf, p, neg, d, SkipDigits(buf, d))

StrtollSpace(buf, p, s) ==
    StrtollSign(buf, p, At(buf, s) = "-", IF At(buf, s) \in {"+", "-"} THEN s + 1 ELSE s)

Strtoll(buf, p) == StrtollSpace(buf, p, SkipSpaces(buf, p))

RECURSIVE StripTrailingZeros(_)
StripTrailingZeros(m) ==
    IF m # <<>> /\ m[Len(m)] = 0 THEN StripTrailingZeros(SubSeq(m, 1, Len(m) - 1))
    ELSE m

Zeros(n) == [i \in 1..n |-> 0]

RECURSIVE MagToNat(_)
MagToNat(m) == IF m = <<>> THEN 0 ELSE MagToNat(SubSeq(m, 1, Len(m) - 1)) * 10 + m[Len(m)]

\* A double, kept as the decimal number it was read from: sign, integer
\* digits and fraction digits (binary rounding is not modelled).
PyFloat(neg, ip, fp) ==
    [t |-> "float", neg |-> neg, ip |-> StripZeros(ip), fp |-> StripTrailingZeros(fp)]

\* digits * 10^exp with the point after the first `point` digits
Scale(neg, digits, point, exp) ==
    LET at == point + exp
    IN  IF at >= Len(digits) THEN PyFloat(neg, digits \o Zeros(at - Len(digits)), <<>>)
        ELSE IF at <= 0 THEN PyFloat(neg, <<0>>, Zeros(0 - at) \o digits)
        ELSE PyFloat(neg, SubSeq(digits, 1, at), SubSeq(digits, at + 1, Len(digits)))

\* strtod(nptr, &endptr) on a decimal literal: white space, sign, digits
\* with an optional point, an optional exponent that has at least one digit;
\* without a digit nothing is converted and endptr = nptr.  The result is
\* [val, end].  (The hexadecimal, "inf" and "nan" forms need bytes that no
\* modelled input holds.)
StrtodExpDigits(buf, neg, digits, point, fe, xneg, xd, xe) ==
    IF xe = xd THEN [val |-> Scale(neg, digits, point, 0), end |-> fe]
    ELSE [val |-> Scale(neg, digits, point,
                        (IF xneg THEN -1 ELSE 1) * MagToNat(DigitsOf(buf, xd, xe))),
          end |-> xe]

StrtodExpSign(buf, neg, digits, point, fe, xneg, xd) ==
    StrtodExpDigits(buf, neg, digits, point, fe, xneg, xd, SkipDigits(buf, xd))

StrtodExp(buf, neg, digits, point, fe) ==
    IF At(buf, fe) \in {"e", "E"}
    THEN StrtodExpSign(buf, neg, digits, point, fe, At(buf, fe + 1) = "-",
                       IF At(buf, fe + 1) \in {"+", "-"} THEN fe + 2 ELSE fe + 1)
    ELSE [val |-> Scale(neg, digits, point, 0), end |-> fe]

StrtodFrac(buf, p, neg, d, ie, fe) ==
    IF (ie - d) + (IF fe > ie THEN fe - ie - 1 ELSE 0) = 0
    THEN [val |-> PyFloat(FALSE, <<0>>, <<>>), end |-> p]
    ELSE StrtodExp(buf, neg,
                   DigitsOf(buf, d, ie)
                       \o (IF fe > ie THEN DigitsOf(buf, ie + 1, fe) ELSE <<>>),
                   ie - d, fe)

StrtodInt(buf, p, neg, d, ie) ==
    StrtodFrac(buf, p, neg, d, ie,
               IF At(buf, ie) = "." THEN SkipDigits(buf, ie + 1) ELSE ie)

StrtodSign(buf, p, neg, d) == StrtodInt(buf, p, neg, d, SkipDigits(buf, d))

StrtodSpace(buf, p, s) ==
    StrtodSign(buf, p, At(buf, s) = "-", IF At(buf, s) \in {"+", "-"} THEN s + 1 ELSE s)

Strtod(buf, p) == StrtodSpace(buf, p, SkipSpaces(buf, p))

(***************************************************************************)
(* The host: CPython objects with reference counts                         *)
(***************************************************************************)
\* A heap is [objs, over, mem]: objs[id] = [rc, v] with v the object's own
\* content (a list's items and a dict's pairs are object ids), over counts
\* the releases of an object that was already freed, and mem is the number
\* of list slots the allocator can still hand out.  Ids 1..3 are the
\* singletons None, True and False, id 4 the string passed to loads or pop;
\* each starts with the one reference its owner holds.
NONE == 1

TRUE_ == 2

FALSE_ == 3

ARG == 4

PyNull == [t |-> "null"]

PyBool(b) == [t |-> "bool", v |-> b]

PyStr(b) == [t |-> "str", b |-> b]

PyList(items) == [t |-> "list", items |-> items]

PyDict(pairs) == [t |-> "dict", pairs |-> pairs]

PyTuple(items) == [t |-> "tuple", items |-> items]

\* A value of a type the binding does not know (a tuple, a unicode string).
PyOther == [t |-> "other"]

NewHeap(arg, mem) ==
    [objs |-> << [rc |-> 1, v |-> PyNull], [rc |-> 1, v |-> PyBool(TRUE)],
                 [rc |-> 1, v |-> PyBool(FALSE)], [rc |-> 1, v |-> arg] >>,
     over |-> 0, mem |-> mem]

\* The ids an object refers to, one entry per reference.
RECURSIVE Flatten(_)
Flatten(pairs) ==
    IF pairs = <<>> THEN <<>> ELSE <<pairs[1][1], pairs[1][2]>> \o Flatten(Tail(pairs))

Children(v) ==
    IF v.t \in {"list", "tuple"} THEN v.items
    ELSE IF v.t = "dict" THEN Flatten(v.pairs)
    ELSE <<>>

Py_INCREF(h, id) == [h EXCEPT !.objs[id].rc = @ + 1]

\* Py_DECREF: the last reference frees the object, which releases the
\* references it holds.
RECURSIVE Py_DECREF(_, _)
RECURSIVE DecrefAll(_, _)
Py_DECREF(h, id) ==
    IF h.objs[id].rc = 0 THEN [h EXCEPT !.over = @ + 1]
    ELSE LET h1 == [h EXCEPT !.objs[id].rc = @ - 1]
         IN  IF h1.objs[id].rc > 0 THEN h1
             ELSE DecrefAll(h1, Children(h1.objs[id].v))

DecrefAll(h, ids) ==
    IF ids = <<>> THEN h ELSE DecrefAll(Py_DECREF(h, ids[1]), Tail(ids))

\* A new object holding one reference, owned by the caller.
PyNew(h, v) ==
    [h |-> [h EXCEPT !.objs = Append(@, [rc |-> 1, v |-> v])],
     ref |-> Len(h.objs) + 1]

\* The value an object denotes: a tree, containers holding values.
RECURSIVE ValueOf(_, _)
ValueOf(h, id) ==
    LET v == h.objs[id].v
    IN  IF v.t \in {"list", "tuple"}
        THEN [t |-> v.t, items |-> [i \in 1..Len(v.items) |-> ValueOf(h, v.items[i])]]
        ELSE IF v.t = "dict"
        THEN PyDict([i \in 1..Len(v.pairs) |->
                        <<ValueOf(h, v.pairs[i][1]), ValueOf(h, v.pairs[i][2])>>])
        ELSE v

\* Python's == on dict keys: numbers of any type compare by value.
IsNumber(v) == v.t \in {"bool", "int", "float"}

NumKey(v) ==
    IF v.t = "bool" THEN <<FALSE, IF v.v THEN <<1>> ELSE <<0>>, <<>>>>
    ELSE IF v.t = "int" THEN <<v.neg, v.mag, <<>>>>
    ELSE <<v.neg /\ ~(v.ip = <<0>> /\ v.fp = <<>>), v.ip, v.fp>>

PyEq(a, b) ==
    IF IsNumber(a) /\ IsNumber(b) THEN NumKey(a) = NumKey(b)
    ELSE a.t = b.t /\ a = b

Hashable(v) == v.t \notin {"list", "dict"}

\* PyDict_SetItem: -1 (TypeError) on an unhashable key; an equal key keeps
\* the stored key object and replaces its value; else the pair is added.
\* The dict takes references of its own to what it stores.
DictReplace(h, dict, i, old, item) ==
    [h |-> Py_DECREF([Py_INCREF(h, item) EXCEPT !.objs[dict].v.pairs[i][2] = item], old),
     res |-> 0]

DictInsert(h, dict, key, item) ==
    [h |-> [Py_INCREF(Py_INCREF(h, key), item)
               EXCEPT !.objs[dict].v.pairs = Append(@, <<key, item>>)],
     res |-> 0]

DictStore(h, dict, key, item, pairs, hit) ==
    IF hit = {} THEN DictInsert(h, dict, key, item)
    ELSE DictReplace(h, dict, CHOOSE i \in hit : TRUE,
                     pairs[CHOOSE i \in hit : TRUE][2], item)

DictLookup(h, key, pairs) ==
    {i \in 1..Len(pairs) : PyEq(ValueOf(h, pairs[i][1]), ValueOf(h, key))}

PyDict_SetItem(h, dict, key, item) ==
    IF ~Hashable(h.objs[key].v) THEN [h |-> h, res |-> -1]
    ELSE DictStore(h, dict, key, item, h.objs[dict].v.pairs,
                   DictLookup(h, key, h.objs[dict].v.pairs))

\* PyList_Append: -1 (MemoryError) when the list cannot grow.
PyList_Append(h, list, item) ==
    IF h.mem = 0 THEN [h |-> h, res |-> -1]
    ELSE [h |-> [Py_INCREF(h, item) EXCEPT !.objs[list].v.items = Append(@, item),
                                           !.mem = @ - 1],
          res |-> 0]

(***************************************************************************)
(* The hooks of the parser (src/tnetstring/_tnetstring.c, 191-289)         *)
(***************************************************************************)
\* Each hook that builds a value returns [h, ref], ref = 0 for NULL.
NULL == 0

\* A new string of the len bytes at position data of buf
PyString_FromStringAndSize(h, buf, data, len) == PyNew(h, PyStr(Slice(buf, data, len)))

tns_parse_string(h, buf, data, len) == PyString_FromStringAndSize(h, buf, data, len)

\* PyLong_FromLongLong(l), unless strtoll stopped elsewhere than data + len
PyLong_FromLongLong(h, l, dataend) ==
    IF l.end # dataend THEN [h |-> h, ref |-> NULL]
    ELSE PyNew(h, PyInt(l.neg, l.mag))

tns_parse_integer(h, buf, data, len) ==
    PyLong_FromLongLong(h, Strtoll(buf, data), data + len)

\* PyFloat_FromDouble(d), unless strtod stopped elsewhere than data + len
PyFloat_FromDouble(h, d, dataend) ==
    IF d.end # dataend THEN [h |-> h, ref |-> NULL]
    ELSE PyNew(h, d.val)

tns_parse_float(h, buf, data, len) ==
    PyFloat_FromDouble(h, Strtod(buf, data), data + len)

tns_get_null(h) == [h |-> Py_INCREF(h, NONE), ref |-> NONE]

tns_get_true(h) == [h |-> Py_INCREF(h, TRUE_), ref |-> TRUE_]

tns_get_false(h) == [h |-> Py_INCREF(h, FALSE_), ref |-> FALSE_]

tns_new_dict(h) == PyNew(h, PyDict(<<>>))

tns_new_list(h) == PyNew(h, PyList(<<>>))

tns_free_dict(h, dict) == Py_DECREF(h, dict)

tns_free_list(h, list) == Py_DECREF(h, list)

\* Py_DECREF(key); Py_DECREF(item); then the result of PyDict_SetItem
DictAdded(r, key, item) ==
    [h |-> Py_DECREF(Py_DECREF(r.h, key), item), res |-> IF r.res = -1 THEN -1 ELSE 0]

tns_add_to_dict(h, dict, key, item) ==
    DictAdded(PyDict_SetItem(h, dict, key, item), key, item)

\* Py_DECREF(item); then the result of PyList_Append
ListAdded(r, item) ==
    [h |-> Py_DECREF(r.h, item), res |-> IF r.res = -1 THEN -1 ELSE 0]

tns_add_to_list(h, list, item) == ListAdded(PyList_Append(h, list, item), item)

(***************************************************************************)
(* The parser engine (tns_core.c, which the binding includes; its text is  *)
(* not among the sources, so it is modelled from the design document,      *)
(* section 4.1, calling the hooks above)                                   *)
(***************************************************************************)
Tags == {",", "#", "}", "]", "~", "!"}

\* The largest size_t
SIZE_MAX_MAG == <<1, 8, 4, 4, 6, 7, 4, 4, 0, 7, 3, 7, 0, 9, 5, 5, 1, 6, 1, 5>>

\* No modelled buffer is this long: a length of more digits than this is
\* larger than any number of bytes that remain.
MaxLengthDigits == 6

RECURSIVE SkipDigitsTo(_, _, _)
SkipDigitsTo(buf, p, end) ==
    IF p < end /\ IsDigit(buf[p]) THEN SkipDigitsTo(buf, p + 1, end) ELSE p

Fail(h, err) == [h |-> h, ref |-> NULL, remain |-> 0, err |-> err]

Done(h, ref, remain) == [h |-> h, ref |-> ref, remain |-> remain, err |-> "none"]

\* A parse inside a container that ran out of payload overran the container.
InContainer(err) == IF err = "Truncated" THEN "ContainerOverrun" ELSE err

RECURSIVE tns_parse_payload(_, _, _, _, _)

\* The value that was parsed, with the position just past its tag.
ParsedTo(r, remain) == IF r.ref = NULL THEN r ELSE Done(r.h, r.ref, remain)

\* Steps 3 to 6: the payload of vallen bytes at valstr, and its tag.
ParseTagged(h, buf, end, valstr, vallen) ==
    IF valstr + vallen >= end THEN Fail(h, "Truncated")
    ELSE IF buf[valstr + vallen] \notin Tags THEN Fail(h, "UnknownTag")
    ELSE ParsedTo(tns_parse_payload(h, buf, buf[valstr + vallen], valstr, vallen),
                  valstr + vallen + 1)

\* Steps 1 and 2: the length, whose digits end before position p, and ':'.
ParseLength(h, buf, data, end, p, mag) ==
    IF p = data THEN Fail(h, "MalformedLength")
    ELSE IF MagLess(SIZE_MAX_MAG, mag) THEN Fail(h, "MalformedLength")
    ELSE IF p >= end \/ buf[p] # ":" THEN Fail(h, "MissingSeparator")
    ELSE IF Len(mag) > MaxLengthDigits THEN Fail(h, "Truncated")
    ELSE ParseTagged(h, buf, end, p + 1, MagToNat(mag))

ParseDigits(h, buf, data, end, p) ==
    ParseLength(h, buf, data, end, p, StripZeros(DigitsOf(buf, data, p)))

\* Parse one value from buf[data .. end - 1]: [h, ref, remain, err], ref the
\* value (NULL on failure) and remain the position just past its tag.
tns_parse(h, buf, data, end) == ParseDigits(h, buf, data, end, SkipDigitsTo(buf, data, end))

RECURSIVE tns_parse_list(_, _, _, _, _)
RECURSIVE tns_parse_dict(_, _, _, _, _)

Built(r) == Done(r.h, r.ref, 0)

NumberOrFail(h, f) == IF f.ref # NULL THEN Built(f) ELSE Fail(h, "InvalidNumber")

IntegerOrFloat(h, buf, data, len, i) ==
    IF i.ref # NULL THEN Built(i)
    ELSE NumberOrFail(h, tns_parse_float(h, buf, data, len))

ParseBool(h, payload) ==
    IF payload = <<"t", "r", "u", "e">> THEN Built(tns_get_true(h))
    ELSE IF payload = <<"f", "a", "l", "s", "e">> THEN Built(tns_get_false(h))
    ELSE Fail(h, "InvalidBool")

ListInto(l, buf, data, end) == tns_parse_list(l.h, buf, l.ref, data, end)

DictInto(d, buf, data, end) == tns_parse_dict(d.h, buf, d.ref, data, end)

\* Step 5: the payload read as its tag says
tns_parse_payload(h, buf, type, data, len) ==
    CASE type = "," -> Built(tns_parse_string(h, buf, data, len))
      [] type = "#" -> IntegerOrFloat(h, buf, data, len, tns_parse_integer(h, buf, data, len))
      [] type = "!" -> ParseBool(h, Slice(buf, data, len))
      [] type = "~" -> IF len = 0 THEN Built(tns_get_null(h)) ELSE Fail(h, "InvalidNull")
      [] type = "]" -> ListInto(tns_new_list(h), buf, data, data + len)
      [] type = "}" -> DictInto(tns_new_dict(h), buf, data, data + len)

\* Fill the list val from buf[data .. end - 1]; on any failure the list is
\* handed to the discard hook.
ListAppended(buf, val, end, remain, a) ==
    IF a.res = -1 THEN Fail(tns_free_list(a.h, val), "OutOfMemory")
    ELSE tns_parse_list(a.h, buf, val, remain, end)

ListItem(buf, val, end, item) ==
    IF item.ref = NULL THEN Fail(tns_free_list(item.h, val), InContainer(item.err))
    ELSE ListAppended(buf, val, end, item.remain, tns_add_to_list(item.h, val, item.ref))

tns_parse_list(h, buf, val, data, end) ==
    IF data = end THEN Done(h, val, 0)
    ELSE ListItem(buf, val, end, tns_parse(h, buf, data, end))

\* Fill the dict val from alternating keys and values; on any failure the
\* dict is handed to the discard hook (the hook interface has no operation
\* that releases a value that is not a container under construction).
DictInserted(buf, val, end, remain, a) ==
    IF a.res = -1 THEN Fail(tns_free_dict(a.h, val), "HookFailure")
    ELSE tns_parse_dict(a.h, buf, val, remain, end)

DictItem(buf, val, end, key, item) ==
    IF item.ref = NULL THEN Fail(tns_free_dict(item.h, val), InContainer(item.err))
    ELSE DictInserted(buf, val, end, item.remain,
                      tns_add_to_dict(item.h, val, key, item.ref))

DictKey(buf, val, end, key) ==
    IF key.ref = NULL THEN Fail(tns_free_dict(key.h, val), InContainer(key.err))
    ELSE IF key.remain = end THEN Fail(tns_free_dict(key.h, val), "DanglingKey")
    ELSE DictItem(buf, val, end, key.ref, tns_parse(key.h, buf, key.remain, end))

tns_parse_dict(h, buf, val, data, end) ==
    IF data = end THEN Done(h, val, 0)
    ELSE DictKey(buf, val, end, tns_parse(h, buf, data, end))

(***************************************************************************)
(* loads and pop (src/tnetstring/_tnetstring.c, 21-75)                     *)
(***************************************************************************)
PyString_Check(v) == v.t = "str"

\* The outcome of a call: ok, the value returned (a tree), the error raised,
\* the heap as the call leaves it and the object returned (NULL on error).
Raised(h, err) == [ok |-> FALSE, val |-> PyNull, err |-> err, h |-> h, ref |-> NULL]

Returned(h, ref) ==
    [ok |-> TRUE, val |-> ValueOf(h, ref), err |-> "none", h |-> h, ref |-> ref]

\* (loads answering None where the parse failed)
LoadsReturnNone(r) ==
    IF r.ref = NULL THEN Returned(Py_INCREF(Py_DECREF(r.h, ARG), NONE), NONE)
    ELSE Returned(Py_DECREF(r.h, ARG), r.ref)

\* Py_DECREF(string); if(val == NULL) return NULL; return val;
LoadsReturn(r) ==
    IF r.ref = NULL THEN Raised(Py_DECREF(r.h, ARG), r.err)
    ELSE Returned(Py_DECREF(r.h, ARG), r.ref)

\* (loads refusing bytes that follow the value)
LoadsExhaustive(r, end) ==
    IF r.ref # NULL /\ r.remain # end
    THEN Raised(Py_DECREF(Py_DECREF(r.h, r.ref), ARG), "TrailingBytes")
    ELSE LoadsReturn(r)

_tnetstring_loads_exhaustive(string, mem) ==
    IF ~PyString_Check(string) THEN Raised(NewHeap(string, mem), "TypeError")
    ELSE LoadsExhaustive(tns_parse(Py_INCREF(NewHeap(string, mem), ARG),
                                   string.b, 1, 1 + Len(string.b)),
                         1 + Len(string.b))

\* loads(string) with `mem` list slots left to the allocator
_tnetstring_loads(string, mem) ==
    IF ~PyString_Check(string) THEN Raised(NewHeap(string, mem), "TypeError")
    ELSE LoadsReturn(tns_parse(Py_INCREF(NewHeap(string, mem), ARG),
                               string.b, 1, 1 + Len(string.b)))

\* PyTuple_Pack(2, val, rest): a new tuple that takes its own references
PyTuple_Pack2(h, val, rest) ==
    PyNew(Py_INCREF(Py_INCREF(h, val), rest), PyTuple(<<val, rest>>))

PopPacked(t) == Returned(t.h, t.ref)

\* return PyTuple_Pack(2, val, rest)
PopTuple(val, rest) == PopPacked(PyTuple_Pack2(rest.h, val, rest.ref))

\* (a rest that starts at the tag instead of just past it)
PopRestFromTag(h, buf, val, data, remain, len) ==
    PopTuple(val, PyString_FromStringAndSize(h, buf, remain - 1,
                                             len - (remain - data) + 1))

\* rest = PyString_FromStringAndSize(remain, len - (remain - data))
PopRest(h, buf, val, data, remain, len) ==
    PopTuple(val, PyString_FromStringAndSize(h, buf, remain, len - (remain - data)))

\* Py_DECREF(string); if(val == NULL) return NULL; then the tuple
PopReturn(string, r) ==
    IF r.ref = NULL THEN Raised(Py_DECREF(r.h, ARG), r.err)
    ELSE PopRest(Py_DECREF(r.h, ARG), string.b, r.ref, 1, r.remain, Len(string.b))

\* pop(string): the tuple (value, rest)
_tnetstring_pop(string, mem) ==
    IF ~PyString_Check(string) THEN Raised(NewHeap(string, mem), "TypeError")
    ELSE PopReturn(string, tns_parse(Py_INCREF(NewHeap(string, mem), ARG),
                                     string.b, 1, 1 + Len(string.b)))

(***************************************************************************)
(* The hooks of the renderer (src/tnetstring/_tnetstring.c, 292-388)       *)
(***************************************************************************)
\* The value to render is a tree: a list holds its items, a dict its
\* <<key, item>> pairs in the order PyDict_Next yields them.  The output
\* buffer is the sequence of bytes in the order they were written.

\* tns_get_type: the type tag, the zero byte for a value of no known type
tns_get_type(val) ==
    IF val.t = "bool" THEN "!"
    ELSE IF val.t = "null" THEN "~"
    ELSE IF val.t = "int" THEN "#"
    ELSE IF val.t = "float" THEN "#"
    ELSE IF val.t = "str" THEN ","
    ELSE IF val.t = "list" THEN "]"
    ELSE IF val.t = "dict" THEN "}"
    ELSE NUL

MagChars(m) == [i \in 1..Len(m) |-> DigitChar(m[i])]

\* str() of an int or long: decimal digits, "-" first when negative
PyObject_Str(val) == (IF val.neg THEN <<"-">> ELSE <<>>) \o MagChars(val.mag)

\* repr() of a float whose shortest form needs no exponent
PyObject_Repr(val) ==
    (IF val.neg THEN <<"-">> ELSE <<>>) \o MagChars(val.ip) \o <<".">>
        \o (IF val.fp = <<>> THEN <<"0">> ELSE MagChars(val.fp))

\* tns_outbuf_rputs (tns_core.c): append the bytes, last one first
tns_outbuf_rputs(outbuf, data) == [res |-> 0, out |-> outbuf \o Reverse(data)]

tns_render_string(val, outbuf) == tns_outbuf_rputs(outbuf, val.b)

tns_render_number(val, outbuf) ==
    tns_render_string(PyStr(IF val.t = "float" THEN PyObject_Repr(val)
                            ELSE PyObject_Str(val)),
                      outbuf)

tns_render_bool(val, outbuf) ==
    IF val = PyBool(TRUE) THEN tns_outbuf_rputs(outbuf, <<"t", "r", "u", "e">>)
    ELSE tns_outbuf_rputs(outbuf, <<"f", "a", "l", "s", "e">>)

RECURSIVE NatDigits(_)
NatDigits(n) == IF n < 10 THEN <<n>> ELSE Append(NatDigits(n \div 10), n % 10)

RECURSIVE tns_render_value(_, _)
RECURSIVE RenderPairs(_, _, _)
RECURSIVE RenderItems(_, _, _)

\* while(PyDict_Next(val, &pos, &key, &item)): the item, then the key
RenderPairs(val, pos, outbuf) ==
    IF pos > Len(val.pairs) THEN [res |-> 0, out |-> outbuf]
    ELSE LET item == tns_render_value(val.pairs[pos][2], outbuf)
             key == tns_render_value(val.pairs[pos][1], item.out)
         IN  IF item.res = -1 THEN [res |-> -1, out |-> outbuf]
             ELSE IF key.res = -1 THEN [res |-> -1, out |-> outbuf]
             ELSE RenderPairs(val, pos + 1, key.out)

\* (a renderer that does not look at what rendering a key returned)
RECURSIVE RenderPairsKeyUnchecked(_, _, _)
RenderPairsKeyUnchecked(val, pos, outbuf) ==
    IF pos > Len(val.pairs) THEN [res |-> 0, out |-> outbuf]
    ELSE LET item == tns_render_value(val.pairs[pos][2], outbuf)
             key == tns_render_value(val.pairs[pos][1], item.out)
         IN  IF item.res = -1 THEN [res |-> -1, out |-> outbuf]
             ELSE RenderPairsKeyUnchecked(val, pos + 1, key.out)

tns_render_dict_key_unchecked(val, outbuf) == RenderPairsKeyUnchecked(val, 1, outbuf)

tns_render_dict(val, outbuf) == RenderPairs(val, 1, outbuf)

\* while(idx >= 0): the items from the last to the first
RenderItems(val, idx, outbuf) ==
    IF idx < 1 THEN [res |-> 0, out |-> outbuf]
    ELSE LET item == tns_render_value(val.items[idx], outbuf)
         IN  IF item.res = -1 THEN [res |-> -1, out |-> outbuf]
             ELSE RenderItems(val, idx - 1, item.out)

\* (a renderer that writes the first item first)
RECURSIVE RenderItemsForward(_, _, _)
RenderItemsForward(val, idx, outbuf) ==
    IF idx > Len(val.items) THEN [res |-> 0, out |-> outbuf]
    ELSE LET item == tns_render_value(val.items[idx], outbuf)
         IN  IF item.res = -1 THEN [res |-> -1, out |-> outbuf]
             ELSE RenderItemsForward(val, idx + 1, item.out)

tns_render_list_forward(val, outbuf) == RenderItemsForward(val, 1, outbuf)

tns_render_list(val, outbuf) == RenderItems(val, Len(val.items), outbuf)

\* tns_render_value (tns_core.c, modelled from the design document, 4.3):
\* the tag, the payload backward, then ':' and the payload's length with its
\* digits backward.
tns_render_value(val, outbuf) ==
    LET type == tns_get_type(val)
        tagged == Append(outbuf, type)
        r == CASE type = "~" -> [res |-> 0, out |-> tagged]
               [] type = "!" -> tns_render_bool(val, tagged)
               [] type = "#" -> tns_render_number(val, tagged)
               [] type = "," -> tns_render_string(val, tagged)
               [] type = "]" -> tns_render_list(val, tagged)
               [] type = "}" -> tns_render_dict(val, tagged)
        datalen == Len(r.out) - Len(tagged)
    IN  IF type = NUL THEN [res |-> -1, out |-> outbuf]
        ELSE IF r.res = -1 THEN [res |-> -1, out |-> outbuf]
        ELSE [res |-> 0,
              out |-> r.out \o <<":">> \o Reverse(MagChars(NatDigits(datalen)))]

\* tns_render_reversed (tns_core.c): the buffer and its length, or a null
\* pointer when rendering fails
tns_render_reversed(val) ==
    LET r == tns_render_value(val, <<>>)
    IN  IF r.res = -1 THEN [null |-> TRUE, output |-> <<>>, len |-> 0]
        ELSE [null |-> FALSE, output |-> r.out, len |-> Len(r.out)]

\* (dumps returning the buffer as it was written)
_tnetstring_dumps_unreversed(object) ==
    LET r == tns_render_reversed(object)
    IN  IF r.null THEN [ok |-> FALSE, bytes |-> <<>>, err |-> "DumpError"]
        ELSE [ok |-> TRUE, bytes |-> r.output, err |-> "none"]

\* dumps(object): [ok, bytes, err]; the copy loop reads output from its last
\* byte down to its first.
_tnetstring_dumps(object) ==
    LET r == tns_render_reversed(object)
    IN  IF r.null THEN [ok |-> FALSE, bytes |-> <<>>, err |-> "DumpError"]
        ELSE [ok |-> TRUE,
              bytes |-> [i \in 1..r.len |-> r.output[r.len + 1 - i]],
              err |-> "none"]

(***************************************************************************)
(* The values and byte strings the calls are made with                     *)
(***************************************************************************)
\* The longest list or dict among the generated values
MaxLen == 2

\* How many messages a caller puts on one stream
MaxMsgs == 3

\* The longest of the generated byte strings
MaxRawLen == 3

\* List slots the allocator has when memory is plentiful, and when it is low
MemPlenty == 50

MemLow == 1

SeqsUpTo(S, n) == UNION {[1..k -> S] : k \in 0..n}

I(n) == PyInt(FALSE, <<n>>)

Ints ==
    { I(0), I(1), I(2), PyInt(TRUE, <<1, 2>>),
      PyInt(FALSE, LLONG_MAX_MAG), PyInt(TRUE, LLONG_MIN_MAG),
      PyInt(FALSE, LLONG_MIN_MAG),
      PyInt(TRUE, <<9, 2, 2, 3, 3, 7, 2, 0, 3, 6, 8, 5, 4, 7, 7, 5, 8, 0, 9>>) }

Strs == { PyStr(<<>>), PyStr(<<"a">>), PyStr(<<"f", "o", "o">>), PyStr(<<":", ",", "1">>) }

Atoms ==
    {PyNull, PyBool(TRUE), PyBool(FALSE), PyFloat(FALSE, <<1>>, <<5>>), PyOther}
        \cup Ints \cup Strs

Elems == {PyNull, I(1), PyStr(<<"a">>), PyOther}

Keys == {PyStr(<<"a">>), I(1), PyBool(TRUE), PyOther}

Items == {PyNull, I(2)}

\* A Python dict holds no two keys that are equal.
DistinctKeys(pairs) ==
    \A i, j \in 1..Len(pairs) : i # j => ~PyEq(pairs[i][1], pairs[j][1])

Lists == {PyList(s) : s \in SeqsUpTo(Elems, MaxLen)}

Dicts == {PyDict(s) : s \in {q \in SeqsUpTo(Keys \X Items, MaxLen) : DistinctKeys(q)}}

Flat == Atoms \cup Lists \cup Dicts

\* One more level of nesting around a value
Nest(S) ==
    {PyList(<<x>>) : x \in S}
        \cup {PyDict(<< <<PyStr(<<"f", "o", "o">>), x>> >>) : x \in S}

\* Lists and dicts to nest twice
Cores ==
    { PyList(<<I(1), I(2)>>), PyList(<<PyOther>>), PyList(<<PyInt(FALSE, LLONG_MIN_MAG)>>),
      PyDict(<< <<PyStr(<<"a">>), PyNull>>, <<I(1), I(2)>> >>),
      PyDict(<< <<PyOther, PyNull>> >>) }

Values == Flat \cup Nest(Atoms \cup Cores) \cup Nest(Nest(Cores))

\* What follows the first message of a stream
Followers ==
    { PyInt(TRUE, <<1, 2>>),
      PyList(<<PyStr(<<":", ",", "1">>), PyDict(<< <<PyStr(<<"a">>), I(2)>> >>)>>) }

Handpicked ==
    { <<>>,
      <<":">>,
      <<"x">>,
      <<"1">>,
      <<"1", "a", ",">>,
      <<"-", "1", ":", "a", ",">>,
      <<"1", ":", "a">>,
      <<"5", ":", "a", "b", "c", ",">>,
      <<"3", ":", "a", "b", "c">>,
      <<"3", ":", "a", "b", "c", "&">>,
      <<"3", ":", "a", "b", "c", ",">>,
      <<"5", ":", "h", "e", "l", "l", "o", ",">>,
      <<"0", ":", "~">>,
      <<"1", ":", "x", "~">>,
      <<"4", ":", "t", "r", "u", "e", "!">>,
      <<"5", ":", "f", "a", "l", "s", "e", "!">>,
      <<"4", ":", "T", "r", "u", "e", "!">>,
      <<"0", ":", "#">>,
      <<"1", ":", "5", "#">>,
      <<"3", ":", "1", ".", "5", "#">>,
      <<"2", ":", " ", "1", "#">>,
      <<"2", ":", "+", "1", "#">>,
      <<"2", ":", "1", " ", "#">>,
      <<"2", ":", "1", "x", "#">>,
      <<"1", ":", "-", "#">>,
      <<"1", ":", " ", "#">>,
      <<"3", ":", "0", "0", "7", "#">>,
      <<"2", ":", "-", "0", "#">>,
      <<"3", ":", "1", "e", "1", "#">>,
      <<"2", ":", ".", "5", "#">>,
      <<"1", "9", ":", "9", "2", "2", "3", "3", "7", "2", "0", "3", "6", "8", "5", "4", "7", "7", "5", "8", "0", "7", "#">>,
      <<"1", "9", ":", "9", "2", "2", "3", "3", "7", "2", "0", "3", "6", "8", "5", "4", "7", "7", "5", "8", "0", "8", "#">>,
      <<"2", "0", ":", "-", "9", "2", "2", "3", "3", "7", "2", "0", "3", "6", "8", "5", "4", "7", "7", "5", "8", "0", "8", "#">>,
      <<"2", "0", ":", "-", "9", "2", "2", "3", "3", "7", "2", "0", "3", "6", "8", "5", "4", "7", "7", "5", "8", "0", "9", "#">>,
      <<"2", "0", ":", "9", "9", "9", "9", "9", "9", "9", "9", "9", "9", "9", "9", "9", "9", "9", "9", "9", "9", "9", "9", "#">>,
      <<"0", ":", "]">>,
      <<"0", ":", "}">>,
      <<"4", ":", "1", ":", "a", ",", "]">>,
      <<"5", ":", "1", ":", "a", ",", "x", "]">>,
      <<"3", ":", "1", ":", "a", "]">>,
      <<"7", ":", "1", ":", "a", ",", "0", ":", "~", "]">>,
      <<"4", ":", "1", ":", "a", ",", "}">>,
      <<"7", ":", "1", ":", "a", ",", "0", ":", "&", "}">>,
      <<"8", ":", "1", ":", "a", ",", "5", ":", "x", ",", "}">>,
      <<"7", ":", "0", ":", "]", "1", ":", "a", ",", "}">>,
      <<"7", ":", "1", ":", "a", ",", "0", ":", "~", "}">>,
      <<"7", ":", "4", ":", "1", ":", "a", ",", "}", "]">>,
      <<"1", "6", ":", "1", ":", "a", ",", "1", ":", "x", ",", "1", ":", "a", ",", "1", ":", "y", ",", "}">>,
      <<"1", "7", ":", "1", ":", "1", "#", "0", ":", "~", "4", ":", "t", "r", "u", "e", "!", "0", ":", "~", "}">>,
      <<"1", "7", ":", "3", ":", "f", "o", "o", ",", "8", ":", "1", ":", "1", "#", "1", ":", "2", "#", "]", "}">>,
      <<"0", ":", "~", "0", ":", "~">>,
      <<"1", "2", "3", "4", "5", "6", "7", ":", "a", ",">>,
      <<"9", "9", "9", "9", "9", "9", "9", "9", "9", "9", "9", "9", "9", "9", "9", "9", "9", "9", "9", "9", ":", "a", ",">> }

Alphabet == {"1", ":", "a", ",", "#", "]"}

Generated == SeqsUpTo(Alphabet, MaxRawLen)

RawInputs == Handpicked \cup Generated

\* What may arrive behind a message
Tails ==
    {<<c>> : c \in Alphabet}
        \cup { <<"0", ":", "~">>, <<"1", ":", "1", "#">>, <<"0", ":", "#">>,
               <<"5", ":", "a", "b", "c", ",">>, <<"3", ":", "a", "b", "c", "&">>,
               <<"-", "1", ":", "a", ",">>, <<"4", ":", "1", ":", "a", ",", "}">>,
               <<"0", ":", "]", "x">> }

RECURSIVE Concat(_)
Concat(frames) == IF frames = <<>> THEN <<>> ELSE frames[1].enc \o Concat(Tail(frames))

(***************************************************************************)
(* A caller's session                                                      *)
(***************************************************************************)
\* data:  the bytes in the caller's buffer
\* sent:  the messages dumps put there that are still in it, each [v, enc]
\* raw:   the bytes at the end of data that came from elsewhere
\* out:   the last call and its outcome: the operation, its argument, the
\*        messages and foreign bytes the buffer held, and what it returned
VARIABLES data, sent, raw, out

vars == <<data, sent, raw, out>>

Idle ==
    [op |-> "none", n |-> 0, arg |-> PyNull, mem |-> MemPlenty, frames |-> <<>>,
     raw |-> <<>>,
     ok |-> TRUE, val |-> PyNull, bytes |-> <<>>, err |-> "none",
     h |-> NewHeap(PyNull, MemPlenty), ref |-> NULL]

Init == data = <<>> /\ sent = <<>> /\ raw = <<>> /\ out = Idle

Filling == out.op \in {"none", "dumps"} /\ raw = <<>>

\* dumps(v), the bytes appended to the buffer
Dumped(v, r) ==
    /\ out' = [Idle EXCEPT !.op = "dumps", !.arg = v, !.ok = r.ok,
                           !.bytes = r.bytes, !.err = r.err]
    /\ data' = IF r.ok THEN data \o r.bytes ELSE data
    /\ sent' = IF r.ok THEN Append(sent, [v |-> v, enc |-> r.bytes]) ELSE sent

Dumps(v) ==
    /\ Filling
    /\ Len(sent) < MaxMsgs
    /\ Dumped(v, _tnetstring_dumps(v))
    /\ UNCHANGED raw

\* Bytes from elsewhere arrive in an empty buffer, or behind one message.
Feed(t) ==
    /\ Filling
    /\ IF sent = <<>> THEN out.op = "none" ELSE Len(sent) = 1
    /\ t # <<>>
    /\ data' = data \o t
    /\ raw' = t
    /\ UNCHANGED <<sent, out>>

\* n counts the calls of pop made in a row on one buffer.
Call(op, arg, mem, r) ==
    [Idle EXCEPT !.op = op, !.n = IF op = "pop" THEN out.n + 1 ELSE 0,
                 !.arg = arg, !.mem = mem, !.frames = sent, !.raw = raw,
                 !.ok = r.ok, !.val = r.val, !.err = r.err, !.h = r.h, !.ref = r.ref]

\* loads(data); the caller is done with the buffer
Loads(mem) ==
    /\ out.op \in {"none", "dumps"}
    /\ out' = Call("loads", PyStr(data), mem, _tnetstring_loads(PyStr(data), mem))
    /\ data' = <<>>
    /\ sent' = <<>>
    /\ raw' = <<>>

\* pop(data); the caller goes on with the rest, in the same process, and
\* gives up on an error
Popped(mem, r) ==
    /\ out' = Call("pop", PyStr(data), mem, r)
    /\ data' = IF r.ok THEN r.val.items[2].b ELSE <<>>
    /\ sent' = IF r.ok /\ sent # <<>> THEN Tail(sent) ELSE <<>>
    /\ raw' = IF ~r.ok THEN <<>>
              ELSE IF sent = <<>> THEN r.val.items[2].b ELSE raw

Pop(mem) ==
    /\ out.op \in {"none", "dumps", "pop"}
    /\ out.op = "pop" => out.ok /\ data # <<>> /\ mem = out.mem
    /\ Popped(mem, _tnetstring_pop(PyStr(data), mem))

\* loads or pop of something that is not a string
NotAString(op) ==
    /\ out.op = "none"
    /\ data = <<>>
    /\ out' = Call(op, PyOther, MemPlenty,
                   IF op = "loads" THEN _tnetstring_loads(PyOther, MemPlenty)
                   ELSE _tnetstring_pop(PyOther, MemPlenty))
    /\ UNCHANGED <<data, sent, raw>>

\* The caller drops the result and starts over.
Drop ==
    /\ out.op \in {"loads", "pop"}
    /\ out' = Idle
    /\ data' = <<>>
    /\ sent' = <<>>
    /\ raw' = <<>>

Next ==
    \/ \E v \in (IF sent = <<>> THEN Values ELSE Followers) : Dumps(v)
    \/ \E t \in (IF sent = <<>> THEN RawInputs ELSE Tails) : Feed(t)
    \/ \E mem \in {MemPlenty, MemLow} : Loads(mem)
    \/ \E mem \in {MemPlenty, MemLow} : Pop(mem)
    \/ \E op \in {"loads", "pop"} : NotAString(op)
    \/ Drop

Spec == Init /\ [][Next]_vars

(***************************************************************************)
(* What the design document says of values and of the wire                 *)
(***************************************************************************)
\* Equality of values: lists item by item, dicts as mappings.
RECURSIVE SameValue(_, _)
SameValue(a, b) ==
    IF a.t # b.t THEN FALSE
    ELSE IF a.t = "list"
    THEN /\ Len(a.items) = Len(b.items)
         /\ \A i \in 1..Len(a.items) : SameValue(a.items[i], b.items[i])
    ELSE IF a.t = "dict"
    THEN /\ Len(a.pairs) = Len(b.pairs)
         /\ \A i \in 1..Len(a.pairs) : \E j \in 1..Len(b.pairs) :
                /\ a.pairs[i][1].t = b.pairs[j][1].t
                /\ a.pairs[i][1] = b.pairs[j][1]
                /\ SameValue(a.pairs[i][2], b.pairs[j][2])
    ELSE a = b

\* Every node of the value is of a type of the data model.
RECURSIVE Classifiable(_)
Classifiable(v) ==
    IF v.t = "list" THEN \A i \in 1..Len(v.items) : Classifiable(v.items[i])
    ELSE IF v.t = "dict"
    THEN \A i \in 1..Len(v.pairs) :
            Classifiable(v.pairs[i][1]) /\ Classifiable(v.pairs[i][2])
    ELSE v.t \in {"null", "bool", "int", "float", "str"}

\* Every Integer of the value is a signed 64-bit one.
RECURSIVE Fits64(_)
Fits64(v) ==
    IF v.t = "list" THEN \A i \in 1..Len(v.items) : Fits64(v.items[i])
    ELSE IF v.t = "dict"
    THEN \A i \in 1..Len(v.pairs) : Fits64(v.pairs[i][1]) /\ Fits64(v.pairs[i][2])
    ELSE v.t = "int" => FitsLongLong(v.neg, v.mag)

RECURSIVE NoFloat(_)
NoFloat(v) ==
    IF v.t = "list" THEN \A i \in 1..Len(v.items) : NoFloat(v.items[i])
    ELSE IF v.t = "dict"
    THEN \A i \in 1..Len(v.pairs) : NoFloat(v.pairs[i][1]) /\ NoFloat(v.pairs[i][2])
    ELSE v.t # "float"

\* Built from Null, Bool, signed 64-bit Integer, Bytes, List and Dict
InDomain(v) == Classifiable(v) /\ Fits64(v) /\ NoFloat(v)

\* A value the document calls encodable
Encodable(v) == Classifiable(v) /\ Fits64(v)

\* <length>:<payload><tag>
Frame(payload, tag) ==
    MagChars(NatDigits(Len(payload))) \o <<":">> \o payload \o <<tag>>

Perms(n) == {f \in [1..n -> 1..n] : \A i, j \in 1..n : f[i] = f[j] => i = j}

\* Key, value, key, value, ... with the pairs in the order f
KeysAndValues(pairs, f) ==
    [i \in 1..(2 * Len(pairs)) |-> pairs[f[(i + 1) \div 2]][2 - (i % 2)]]

\* The forward wire forms of a value: a dict's pairs may come in any order.
RECURSIVE WireForms(_)
RECURSIVE PayloadForms(_)
PayloadForms(vs) ==
    IF vs = <<>> THEN {<<>>}
    ELSE {a \o b : a \in WireForms(Head(vs)), b \in PayloadForms(Tail(vs))}

WireForms(v) ==
    IF v.t = "null" THEN {Frame(<<>>, "~")}
    ELSE IF v.t = "bool"
    THEN {Frame(IF v.v THEN <<"t", "r", "u", "e">> ELSE <<"f", "a", "l", "s", "e">>, "!")}
    ELSE IF v.t = "int" THEN {Frame(PyObject_Str(v), "#")}
    ELSE IF v.t = "float" THEN {Frame(PyObject_Repr(v), "#")}
    ELSE IF v.t = "str" THEN {Frame(v.b, ",")}
    ELSE IF v.t = "list" THEN {Frame(p, "]") : p \in PayloadForms(v.items)}
    ELSE IF v.t = "dict"
    THEN {Frame(p, "}") : p \in UNION {PayloadForms(KeysAndValues(v.pairs, f)) :
                                          f \in Perms(Len(v.pairs))}}
    ELSE {}

\* {"foo": [1, 2]} and its encoding 17:3:foo,8:1:1#1:2#]}
FooValue == PyDict(<< <<PyStr(<<"f", "o", "o">>), PyList(<<I(1), I(2)>>)>> >>)

FooWire ==
    <<"1", "7", ":", "3", ":", "f", "o", "o", ",", "8", ":", "1", ":", "1", "#",
      "1", ":", "2", "#", "]", "}">>

\* The framing of a buffer, read from its first byte
Lead(b) ==
    CHOOSE n \in 0..Len(b) :
        /\ \A i \in 1..n : IsDigit(b[i])
        /\ n = Len(b) \/ ~IsDigit(b[n + 1])

LenMag(b) == StripZeros([i \in 1..Lead(b) |-> DigitVal(b[i])])

\* The declared length is larger than k.
Exceeds(b, k) == k < 0 \/ MagLess(NatDigits(k), LenMag(b))

Overflows(b) == MagLess(SIZE_MAX_MAG, LenMag(b))

NoLength(b) == Lead(b) = 0

HasLength(b) == Lead(b) > 0 /\ ~Overflows(b)

NoSeparator(b) == HasLength(b) /\ (Lead(b) = Len(b) \/ b[Lead(b) + 1] # ":")

HasPrefix(b) == HasLength(b) /\ Lead(b) < Len(b) /\ b[Lead(b) + 1] = ":"

\* The payload and the tag do not fit in what follows the separator.
Short(b) == HasPrefix(b) /\ Exceeds(b, Len(b) - Lead(b) - 2)

Declared(b) == MagToNat(LenMag(b))

TagAt(b) == b[Lead(b) + Declared(b) + 2]

BadTag(b) == HasPrefix(b) /\ ~Short(b) /\ TagAt(b) \notin Tags

Framed(b) == HasPrefix(b) /\ ~Short(b) /\ TagAt(b) \in Tags

Payload(b) == SubSeq(b, Lead(b) + 2, Lead(b) + Declared(b) + 1)

\* Number text: white space, a sign, then digits (integer) or digits with
\* a point and an exponent (float), as strtoll and strtod take it
Unspaced(P) == SubSeq(P, SkipSpaces(P, 1), Len(P))

Unsigned(Q) == IF Q # <<>> /\ Q[1] \in {"+", "-"} THEN Tail(Q) ELSE Q

AllDigits(Q) == Q # <<>> /\ \A i \in 1..Len(Q) : IsDigit(Q[i])

IsIntLiteral(P) == AllDigits(Unsigned(Unspaced(P)))

IsMantissa(M) ==
    /\ \E i \in 1..Len(M) : IsDigit(M[i])
    /\ \A i \in 1..Len(M) : IsDigit(M[i]) \/ M[i] = "."
    /\ Cardinality({i \in 1..Len(M) : M[i] = "."}) <= 1

IsFloatBody(B) ==
    \/ IsMantissa(B)
    \/ \E k \in 1..Len(B) :
          /\ B[k] \in {"e", "E"}
          /\ IsMantissa(SubSeq(B, 1, k - 1))
          /\ AllDigits(Unsigned(SubSeq(B, k + 1, Len(B))))

IsFloatLiteral(P) == IsFloatBody(Unsigned(Unspaced(P)))

\* The integer an integer literal denotes
LiteralValue(P) ==
    PyInt(Unspaced(P)[1] = "-",
          StripZeros([i \in 1..Len(Unsigned(Unspaced(P))) |->
                         DigitVal(Unsigned(Unspaced(P))[i])]))

\* The value a call of loads or pop decoded
Decoded(o) == IF o.op = "pop" THEN o.val.items[1] ELSE o.val

Parsing == out.op \in {"loads", "pop"} /\ out.arg.t = "str"

\* The references the live objects of heap h hold to object id
Refs(h) ==
    UNION {{<<j, k>> : k \in 1..Len(Children(h.objs[j].v))} : j \in 1..Len(h.objs)}

Held(h, id) ==
    Cardinality({jk \in Refs(h) : /\ h.objs[jk[1]].rc > 0
                                  /\ Children(h.objs[jk[1]].v)[jk[2]] = id})

\* Every count is what the caller, the live objects and the result hold, and
\* nothing was released twice.
Balanced(h, root) ==
    /\ h.over = 0
    /\ \A id \in 1..Len(h.objs) :
          h.objs[id].rc = (IF id <= ARG THEN 1 ELSE 0) + Held(h, id)
                              + (IF id = root THEN 1 ELSE 0)

(***************************************************************************)
(* The claims                                                              *)
(***************************************************************************)
\* C1: loads(dumps(v)) succeeds and equals v for every value v built from
\* Null, Bool, signed 64-bit Integer, Bytes, List and Dict: lists item by
\* item in order, dicts as mappings.
C1_RoundTrip ==
    (/\ out.op = "loads"
     /\ out.mem = MemPlenty
     /\ Len(out.frames) = 1
     /\ out.raw = <<>>
     /\ InDomain(out.frames[1].v))
        => out.ok /\ SameValue(out.val, out.frames[1].v)

\* A dict of two pairs went through dumps and loads, and came back with its
\* pairs in the other order.
C1_Witness ==
    /\ out.op = "loads"
    /\ out.mem = MemPlenty
    /\ Len(out.frames) = 1
    /\ out.raw = <<>>
    /\ InDomain(out.frames[1].v)
    /\ out.frames[1].v.t = "dict"
    /\ Len(out.frames[1].v.pairs) = 2
    /\ out.ok
    /\ out.val # out.frames[1].v

\* C2: the bytes dumps returns are the forward wire form of the value, with
\* the length prefixes of every level and the items of a list in order;
\* dumps({"foo": [1, 2]}) is 17:3:foo,8:1:1#1:2#]}.
C2_ForwardWireForm ==
    (out.op = "dumps" /\ out.ok)
        => /\ out.bytes \in WireForms(out.arg)
           /\ out.arg = FooValue => out.bytes = FooWire

\* dumps returned the encoding of a list of two items nested in a dict.
C2_Witness ==
    /\ out.op = "dumps"
    /\ out.ok
    /\ out.arg = FooValue
    /\ out.bytes = FooWire

\* C3: on the concatenation of the encodings of v1..vn, pop yields v1, then
\* v2, ..., each time with the rest of the buffer; the bytes consumed
\* followed by the rest are the buffer popped; after n pops nothing remains.
C3_StreamFraming ==
    /\ data = Concat(sent) \o raw
    /\ (out.op = "pop" /\ out.mem = MemPlenty /\ out.frames # <<>>)
          => /\ out.ok
             /\ Encodable(out.frames[1].v)
                   => SameValue(out.val.items[1], out.frames[1].v)
             /\ out.val.items[2].b = Concat(Tail(out.frames)) \o out.raw
             /\ out.arg.b = out.frames[1].enc \o out.val.items[2].b
             /\ (Len(out.frames) = 1 /\ out.raw = <<>>) => data = <<>>

\* The last of MaxMsgs pops emptied a stream of MaxMsgs messages.
C3_Witness ==
    /\ out.op = "pop"
    /\ out.n = MaxMsgs
    /\ out.mem = MemPlenty
    /\ Len(out.frames) = 1
    /\ out.raw = <<>>
    /\ out.ok
    /\ data = <<>>

\* C4: loads of a well-formed encoding e of v followed by any bytes returns
\* v, as loads(e) does, and raises nothing.
C4_LoadsIgnoresTrailingBytes ==
    (/\ out.op = "loads"
     /\ out.mem = MemPlenty
     /\ Len(out.frames) = 1
     /\ Encodable(out.frames[1].v))
        => /\ out.ok
           /\ SameValue(out.val, out.frames[1].v)
           /\ out.val = _tnetstring_loads(PyStr(out.frames[1].enc), MemPlenty).val

\* loads returned the value of an encoding that bytes which are no
\* tnetstring followed.
C4_Witness ==
    /\ out.op = "loads"
    /\ out.mem = MemPlenty
    /\ Len(out.frames) = 1
    /\ Encodable(out.frames[1].v)
    /\ out.raw # <<>>
    /\ ~ Framed(out.raw)
    /\ out.ok

\* C5: loads and pop raise the parse error of the right kind, and return
\* no value, on an empty input, a length prefix that is missing or not
\* decimal digits, a missing ':', a declared length larger than what is
\* there, and an unknown tag; they accept no input so malformed.
C5_MalformedRejected ==
    Parsing
        => /\ out.arg.b = <<>>
                => ~out.ok /\ out.err \in {"Truncated", "MalformedLength"}
           /\ (NoLength(out.arg.b) /\ out.arg.b # <<>>)
                => ~out.ok /\ out.err = "MalformedLength"
           /\ NoSeparator(out.arg.b) => ~out.ok /\ out.err = "MissingSeparator"
           /\ Short(out.arg.b) => ~out.ok /\ out.err = "Truncated"
           /\ BadTag(out.arg.b) => ~out.ok /\ out.err = "UnknownTag"
           /\ out.ok => Framed(out.arg.b)
           /\ ~out.ok => out.ref = NULL /\ out.val = PyNull

\* pop refused a buffer whose declared length is larger than its payload.
C5_Witness ==
    /\ out.op = "pop"
    /\ out.arg.t = "str"
    /\ Short(out.arg.b)
    /\ Len(out.arg.b) >= 4
    /\ ~out.ok
    /\ out.err = "Truncated"

\* C6: when loads or pop returns, no value is leaked and none is released
\* twice: on failure nothing built is alive, on success the only reference
\* left beyond the caller's own is the one to the object returned.
C6_NoLeakNoDoubleRelease ==
    out.op \in {"loads", "pop"} => Balanced(out.h, out.ref)

\* C7: dumps fails with the dump error exactly when the value, or a value
\* nested in it at any depth, is of a type the renderer cannot classify,
\* and then returns no bytes.
C7_DumpFailsIffUnclassifiable ==
    out.op = "dumps"
        => /\ out.ok <=> Classifiable(out.arg)
           /\ ~out.ok => out.err = "DumpError" /\ out.bytes = <<>>

\* dumps refused a dict whose key is of an unknown type, nested in a list.
C7_Witness ==
    /\ out.op = "dumps"
    /\ ~out.ok
    /\ out.arg.t = "list"
    /\ out.arg.items[1].t = "dict"
    /\ out.arg.items[1].pairs[1][1].t = "other"

\* C8: dumps of a value that holds an integer outside the signed 64-bit
\* range fails.
C8_BigIntegerNotEncodable ==
    (out.op = "dumps" /\ Classifiable(out.arg) /\ ~Fits64(out.arg)) => ~out.ok

\* C9: a '#' payload that is an integer literal decodes to an Integer, one
\* that is a floating-point literal but no integer literal to a Float, and
\* any other payload, the empty one included, is refused as InvalidNumber.
C9_NumberPayload ==
    (Parsing /\ Framed(out.arg.b) /\ TagAt(out.arg.b) = "#")
        => IF IsIntLiteral(Payload(out.arg.b))
           THEN out.ok /\ Decoded(out).t = "int"
           ELSE IF IsFloatLiteral(Payload(out.arg.b))
           THEN out.ok /\ Decoded(out).t = "float"
           ELSE ~out.ok /\ out.err = "InvalidNumber"

\* C10: when loads or pop decodes a '#' payload that is an integer literal
\* to an Integer, the Integer is the one the literal denotes; a literal
\* outside the signed 64-bit range never comes back clamped or wrapped.
C10_NoSilentClamp ==
    (/\ Parsing
     /\ Framed(out.arg.b)
     /\ TagAt(out.arg.b) = "#"
     /\ IsIntLiteral(Payload(out.arg.b))
     /\ out.ok
     /\ Decoded(out).t = "int")
        => Decoded(out) = LiteralValue(Payload(out.arg.b))

====
